---- MODULE Spec2Model ----
(***************************************************************************)
(* A model of tutorials/plot_tools/table_API.py: print_table and its       *)
(* helpers.  One call of print_table is a run of the state machine: Init   *)
(* draws the arguments, each action is one block of the function body, and *)
(* an exception ends the run in pc = "failed" with the exception recorded. *)
(*                                                                         *)
(* Strings are sequences of one-character strings.  A float is a record    *)
(* [n, d]: the rational n/d when d > 0, and +inf, -inf, nan when d = 0     *)
(* (n = 1, -1, 0).  A computed value that is irrational (a fractional      *)
(* power) is kept as an open interval [lo, hi] of such floats that         *)
(* contains it; an exact value is the interval with lo = hi.               *)
(***************************************************************************)
EXTENDS Integers, Sequences, FiniteSets, TLC

\* ------------------------------------------------------------------ bounds
\* A matrix has at most MaxCells cells (rows * columns).
MaxCells == 4
\* A list-valued print_format or colorscale has at most MaxListLen entries.
MaxListLen == 2

\* ------------------------------------------------------------------ floats
Fin(k) == [n |-> k, d |-> 1]
PosInf == [n |-> 1, d |-> 0]
NegInf == [n |-> -1, d |-> 0]
NaN == [n |-> 0, d |-> 0]

Abs(k) == IF k < 0 THEN -k ELSE k
Sgn(k) == IF k < 0 THEN -1 ELSE IF k > 0 THEN 1 ELSE 0

RECURSIVE GCD(_, _)
GCD(a, b) == IF b = 0 THEN a ELSE GCD(b, a % b)

\* The rational p/q (q # 0) in lowest terms with a positive denominator.
Rat(p, q) ==
    LET g == GCD(Abs(p), Abs(q))
        s == IF q < 0 THEN -1 ELSE 1
    IN  [n |-> s * (p \div g), d |-> Abs(q) \div g]

IsNaN(a) == a.d = 0 /\ a.n = 0
IsFinite(a) == a.d > 0
IsZero(a) == a.d > 0 /\ a.n = 0
FSign(a) == Sgn(a.n)
IsInteger(a) == a.d = 1

FNeg(a) == [n |-> -a.n, d |-> a.d]

\* IEEE addition.
FAdd(a, b) ==
    IF IsNaN(a) \/ IsNaN(b) THEN NaN
    ELSE IF IsFinite(a) /\ IsFinite(b) THEN Rat(a.n * b.d + b.n * a.d, a.d * b.d)
    ELSE IF IsFinite(a) THEN b
    ELSE IF IsFinite(b) THEN a
    ELSE IF a.n = b.n THEN a ELSE NaN

FSub(a, b) == FAdd(a, FNeg(b))

\* IEEE multiplication.
FMul(a, b) ==
    IF IsNaN(a) \/ IsNaN(b) THEN NaN
    ELSE IF IsFinite(a) /\ IsFinite(b) THEN Rat(a.n * b.n, a.d * b.d)
    ELSE IF FSign(a) * FSign(b) = 0 THEN NaN
    ELSE [n |-> FSign(a) * FSign(b), d |-> 0]

\* IEEE division, as numpy's float64 scalars divide (a zero divisor gives
\* nan or an infinity and a RuntimeWarning, never an exception).
FDiv(a, b) ==
    IF IsNaN(a) \/ IsNaN(b) THEN NaN
    ELSE IF IsFinite(a) /\ IsFinite(b)
         THEN IF b.n # 0 THEN Rat(a.n * b.d, a.d * b.n)
              ELSE IF a.n = 0 THEN NaN ELSE [n |-> FSign(a), d |-> 0]
    ELSE IF IsFinite(b)
         THEN [n |-> FSign(a) * (IF b.n < 0 THEN -1 ELSE 1), d |-> 0]
    ELSE IF IsFinite(a) THEN Fin(0)
    ELSE NaN

\* a < b for floats that are not nan.
FLess(a, b) ==
    IF IsFinite(a) /\ IsFinite(b) THEN a.n * b.d < b.n * a.d
    ELSE IF IsFinite(a) THEN b.n = 1
    ELSE IF IsFinite(b) THEN a.n = -1
    ELSE a.n < b.n

FLeq(a, b) == a = b \/ FLess(a, b)

\* np.min / np.max of a non-empty sequence of floats without nan.
RECURSIVE np_min(_)
np_min(s) ==
    IF Len(s) = 1 THEN s[1]
    ELSE LET m == np_min(Tail(s)) IN IF FLess(s[1], m) THEN s[1] ELSE m

RECURSIVE np_max(_)
np_max(s) ==
    IF Len(s) = 1 THEN s[1]
    ELSE LET m == np_max(Tail(s)) IN IF FLess(m, s[1]) THEN s[1] ELSE m

\* a^k for a finite non-zero rational a and an integer k.
RECURSIVE PowInt(_, _)
PowInt(a, k) ==
    IF k = 0 THEN Fin(1)
    ELSE IF k < 0 THEN PowInt(Rat(a.d, a.n), -k)
    ELSE FMul(a, PowInt(a, k - 1))

\* Intervals: an exact value, or an open interval known to hold the value.
Exact(a) == [lo |-> a, hi |-> a]
Open(a, b) == [lo |-> a, hi |-> b]
IsExact(v) == v.lo = v.hi

\* np.power(b, e) for an exact float base b and a finite exponent e (C pow).
PowNum(b, e) ==
    IF IsZero(e) \/ b = Fin(1) THEN Exact(Fin(1))
    ELSE IF IsNaN(b) THEN Exact(NaN)
    ELSE IF IsZero(b) THEN Exact(IF e.n > 0 THEN Fin(0) ELSE PosInf)
    ELSE IF b = PosInf THEN Exact(IF e.n > 0 THEN PosInf ELSE Fin(0))
    ELSE IF b = NegInf
         THEN IF IsInteger(e) /\ e.n % 2 = 1
              THEN Exact(IF e.n > 0 THEN NegInf ELSE Fin(0))
              ELSE Exact(IF e.n > 0 THEN PosInf ELSE Fin(0))
    ELSE IF IsInteger(e) THEN Exact(PowInt(b, e.n))
    ELSE IF b.n < 0 THEN Exact(NaN)
    ELSE IF FLess(b, Fin(1))
         THEN (IF e.n > 0 THEN Open(Fin(0), Fin(1)) ELSE Open(Fin(1), PosInf))
         ELSE (IF e.n > 0 THEN Open(Fin(1), PosInf) ELSE Open(Fin(0), Fin(1)))

\* v * s and s - v for an interval v and an exact float s >= 0.
IScale(v, s) ==
    IF IsExact(v) THEN Exact(FMul(v.lo, s))
    ELSE IF IsZero(s) THEN Exact(Fin(0))
    ELSE Open(FMul(v.lo, s), FMul(v.hi, s))

ISubFrom(s, v) ==
    IF IsExact(v) THEN Exact(FSub(s, v.lo))
    ELSE Open(FSub(s, v.hi), FSub(s, v.lo))

\* ----------------------------------------------------------------- strings
Digit == <<"0", "1", "2", "3", "4", "5", "6", "7", "8", "9">>
DigitChars == {Digit[i] : i \in 1..10}
Whitespace == {" "}

RECURSIVE Digits(_)
\* The decimal digits of a natural number.
Digits(k) == IF k < 10 THEN <<Digit[k + 1]>> ELSE Digits(k \div 10) \o <<Digit[(k % 10) + 1]>>

RECURSIVE Repeat(_, _)
Repeat(c, k) == IF k <= 0 THEN <<>> ELSE <<c>> \o Repeat(c, k - 1)

RECURSIVE Concat(_)
\* ''.join(parts)
Concat(parts) == IF parts = <<>> THEN <<>> ELSE Head(parts) \o Concat(Tail(parts))

RECURSIVE Join(_, _)
\* sep.join(parts)
Join(parts, sep) ==
    IF parts = <<>> THEN <<>>
    ELSE IF Len(parts) = 1 THEN parts[1]
    ELSE parts[1] \o sep \o Join(Tail(parts), sep)

Max2(a, b) == IF a < b THEN b ELSE a

RECURSIVE MaxOf(_)
\* max() of a non-empty sequence of integers.
MaxOf(s) == IF Len(s) = 1 THEN s[1] ELSE Max2(s[1], MaxOf(Tail(s)))

\* ------------------------------------------------------------- cell values
\* A cell of data_array: a float, a str, or None (any object that is neither).
FloatCell(a) == [k |-> "float", n |-> a.n, d |-> a.d, s |-> <<>>]
StrCell(s) == [k |-> "str", n |-> 0, d |-> 0, s |-> s]
NoneCell == [k |-> "none", n |-> 0, d |-> 0, s |-> <<>>]
FloatOf(c) == [n |-> c.n, d |-> c.d]

\* Whether float(s) accepts the string s; strings here are made of letters
\* and digits only, and of those float() accepts the non-empty digit strings.
IsFloatLiteral(s) == s # <<>> /\ \A i \in 1..Len(s) : s[i] \in DigitChars

\* float(val): "ok", or the exception it raises.
float_conv(val) ==
    CASE val.k = "float" -> "ok"
      [] val.k = "str" -> IF IsFloatLiteral(val.s) THEN "ok" ELSE "ValueError"
      [] OTHER -> "TypeError"

\* val != np.inf and val == val
NotInfNotNaN(val) ==
    IF val.k = "float" THEN FloatOf(val) # PosInf /\ ~IsNaN(FloatOf(val)) ELSE TRUE

\* is_valid_float: only ValueError is caught.
is_valid_float(val) ==
    LET c == float_conv(val)
    IN  IF c = "ValueError" THEN [raised |-> "", value |-> FALSE]
        ELSE IF c # "ok" THEN [raised |-> c, value |-> FALSE]
        ELSE [raised |-> "", value |-> NotInfNotNaN(val)]

\* return_valid_number_idx on a 1-D sequence of cells: the vectorized
\* is_valid_float; an exception in any element ends the call.
return_valid_number_idx(cells) ==
    LET r == [i \in 1..Len(cells) |-> is_valid_float(cells[i])]
        bad == {i \in 1..Len(cells) : r[i].raised # ""}
    IN  IF bad # {}
        THEN [raised |-> r[CHOOSE i \in bad : \A j \in bad : i <= j].raised, idx |-> <<>>]
        ELSE [raised |-> "", idx |-> [i \in 1..Len(cells) |-> r[i].value]]

\* data_array flattened in row-major order.
Flatten(m) == Concat(m)
\* data_array[:, col] (col counted from 1).
Column(m, col) == [i \in 1..Len(m) |-> m[i][col]]
\* data_array.T
Transpose(m) == [j \in 1..Len(m[1]) |-> Column(m, j)]

\* cells[idx]: the elements selected by a boolean mask.
RECURSIVE Select(_, _)
Select(cells, idx) ==
    IF cells = <<>> THEN <<>>
    ELSE (IF Head(idx) THEN <<Head(cells)>> ELSE <<>>) \o Select(Tail(cells), Tail(idx))

\* -------------------------------------------------------------- formatting
\* A format spec: minimum width w, precision p, presentation type t.
Fmt_1_2f == [w |-> 1, p |-> 2, t |-> "f"]
Fmt_empty == [w |-> 0, p |-> 0, t |-> ""]

\* The text of a float: fixed-point with p decimals, or inf / -inf / nan.
\* Finite cell values are whole numbers, so every decimal is a zero.
FloatText(a, p) ==
    IF IsNaN(a) THEN <<"n", "a", "n">>
    ELSE IF a = PosInf THEN <<"i", "n", "f">>
    ELSE IF a = NegInf THEN <<"-", "i", "n", "f">>
    ELSE (IF a.n < 0 THEN <<"-">> ELSE <<>>) \o Digits(Abs(a.n) \div a.d)
         \o (IF p > 0 THEN <<".">> \o Repeat("0", p) ELSE <<>>)

\* "{num:{form}}".format(num=val, form=form): the text, or the exception.
py_format(val, form) ==
    IF form.t = "f"
    THEN CASE val.k = "float" ->
                LET body == FloatText(FloatOf(val), form.p)
                IN  [raised |-> "", str |-> Repeat(" ", form.w - Len(body)) \o body]
           [] val.k = "str" -> [raised |-> "ValueError", str |-> <<>>]
           [] OTHER -> [raised |-> "TypeError", str |-> <<>>]
    ELSE CASE val.k = "float" ->
                LET a == FloatOf(val)
                IN  [raised |-> "", str |-> FloatText(a, IF IsFinite(a) THEN 1 ELSE 0)]
           [] val.k = "str" -> [raised |-> "", str |-> val.s]
           [] OTHER -> [raised |-> "", str |-> <<"N", "o", "n", "e">>]

fill_cell_no_pad(text, length, sep) == text \o sep

\* fill_cell: text centred in `length` columns (the odd space goes right),
\* followed by sep.
fill_cell(text, length, sep) ==
    LET pad == Max2(0, length - Len(text))
        left == pad \div 2
    IN  Repeat(" ", left) \o text \o Repeat(" ", pad - left) \o sep

\* return_one_row_text
return_one_row_text(content_buffer) == Join(content_buffer, <<" ">>) \o <<"\n">>

\* ------------------------------------------------------------ color mapping
\* np.power(v, e) for a base known exactly or as an open interval.
PowI(v, e) ==
    IF IsExact(v) THEN PowNum(v.lo, e)
    ELSE IF FLeq(Fin(0), v.lo) /\ FLeq(v.hi, Fin(1))
         THEN (IF e.n > 0 THEN Open(Fin(0), Fin(1)) ELSE Open(Fin(1), PosInf))
    ELSE IF FLeq(Fin(1), v.lo)
         THEN (IF e.n > 0 THEN Open(Fin(1), PosInf) ELSE Open(Fin(0), Fin(1)))
    ELSE IF FLeq(v.hi, Fin(0)) /\ ~IsInteger(e) THEN Exact(NaN)
    ELSE Open(NegInf, PosInf)

\* wrap_value(data, wrap_factor): the wrapped value, or the exception of
\* the Python divisions (1+wrap_factor)/(1-wrap_factor) and 1/ratio.
wrap_value(data, wrap_factor) ==
    IF IsZero(wrap_factor) THEN [raised |-> "", v |-> Exact(data)]
    ELSE IF IsZero(FSub(Fin(1), wrap_factor))
         THEN [raised |-> "ZeroDivisionError", v |-> Exact(NaN)]
    ELSE LET ratio == FDiv(FAdd(Fin(1), wrap_factor), FSub(Fin(1), wrap_factor))
             inner == PowNum(FSub(Fin(1), data), ratio)
         IN  IF IsZero(ratio)
             THEN [raised |-> "ZeroDivisionError", v |-> Exact(NaN)]
             ELSE [raised |-> "", v |-> PowI(ISubFrom(Fin(1), inner), FDiv(Fin(1), ratio))]

\* Length of r"\cellcolor[rgb]{" + "0.00, 0.00, 0.00" + "}".
ColorCmdLen == 33

\* latex_color_cell: '' (on = FALSE), or the \cellcolor command of the
\* color that color_func gives for the intensity in [lo, hi].
NoColor == [on |-> FALSE, lo |-> NaN, hi |-> NaN]
ColorCmd(v) == [on |-> TRUE, lo |-> v.lo, hi |-> v.hi]

\* return_latex_color_cell.  value, val_min, val_max are cells; elements of
\* a float64 array divide as IEEE floats, elements of an object array are
\* Python floats, whose division by zero raises.
return_latex_color_cell(value, val_min, val_max, scale, wrap, dtype) ==
    IF value.k # "float" \/ val_min.k # "float" \/ val_max.k # "float"
    THEN [raised |-> "TypeError", line |-> IF FLess(scale, Fin(0)) THEN 43 ELSE 46,
          color |-> NoColor]
    ELSE LET num == FSub(FloatOf(value), FloatOf(val_min))
             den == FSub(FloatOf(val_max), FloatOf(val_min))
             neg == FLess(scale, Fin(0))
             at == IF neg THEN 43 ELSE 46
         IN  IF dtype = "object" /\ IsZero(den)
             THEN [raised |-> "ZeroDivisionError", line |-> at, color |-> NoColor]
             ELSE LET w == wrap_value(FDiv(num, den), wrap)
                  IN  IF w.raised # ""
                      THEN [raised |-> w.raised, line |-> 38, color |-> NoColor]
                      ELSE IF neg
                      THEN [raised |-> "", line |-> 0,
                            color |-> ColorCmd(ISubFrom(FNeg(scale), IScale(w.v, FNeg(scale))))]
                      ELSE [raised |-> "", line |-> 0, color |-> ColorCmd(IScale(w.v, scale))]

\* The cells over which get_latex_color takes the minimum and the maximum.
ScopeCells(data_array, row_idx, col_idx, color_minmax_in) ==
    IF color_minmax_in = "row" THEN data_array[row_idx + 1]
    ELSE IF color_minmax_in = "col" THEN Column(data_array, col_idx + 1)
    ELSE Flatten(data_array)

\* colorscale_tmp: [raised, scale].  A list is indexed by the row, by the
\* column, or (any other scope) by the pair (row, column), which a Python
\* list does not accept.
ScaleFor(colorscale, row_idx, col_idx, color_minmax_in) ==
    IF ~colorscale.list THEN [raised |-> "", line |-> 0, scale |-> colorscale.v[1]]
    ELSE IF color_minmax_in = "row"
         THEN IF row_idx < Len(colorscale.v)
              THEN [raised |-> "", line |-> 0, scale |-> colorscale.v[row_idx + 1]]
              ELSE [raised |-> "IndexError", line |-> 155, scale |-> NaN]
    ELSE IF color_minmax_in = "col"
         THEN IF col_idx < Len(colorscale.v)
              THEN [raised |-> "", line |-> 0, scale |-> colorscale.v[col_idx + 1]]
              ELSE [raised |-> "IndexError", line |-> 161, scale |-> NaN]
    ELSE [raised |-> "TypeError", line |-> 167, scale |-> NaN]

\* np.min / np.max of the selected cells: floats compare as floats; strings
\* among floats do not compare; of strings alone one is returned, and the
\* subtraction that follows raises whichever it is.
CellsMin(sel) == FloatCell(np_min([i \in 1..Len(sel) |-> FloatOf(sel[i])]))
CellsMax(sel) == FloatCell(np_max([i \in 1..Len(sel) |-> FloatOf(sel[i])]))

\* get_latex_color (the closure of print_table, with the variables it
\* closes over as parameters): [raised, line, color].
get_latex_color(data_array, row_idx, col_idx, color_minmax_in, colorscale, colorwrap, dtype) ==
    LET x == data_array[row_idx + 1][col_idx + 1]
        scope == ScopeCells(data_array, row_idx, col_idx, color_minmax_in)
        at == IF color_minmax_in = "row" THEN 151
              ELSE IF color_minmax_in = "col" THEN 157 ELSE 163
        vi == return_valid_number_idx(scope)
    IN  IF vi.raised # "" THEN [raised |-> vi.raised, line |-> at, color |-> NoColor]
        ELSE LET sel == Select(scope, vi.idx)
                 strs == {i \in 1..Len(sel) : sel[i].k = "str"}
             IN  IF strs # {} /\ Cardinality(strs) < Len(sel)
                 THEN [raised |-> "TypeError", line |-> at + 1, color |-> NoColor]
                 ELSE LET value_min == IF strs # {} THEN sel[1] ELSE CellsMin(sel)
                          value_max == IF strs # {} THEN sel[1] ELSE CellsMax(sel)
                          sc == ScaleFor(colorscale, row_idx, col_idx, color_minmax_in)
                      IN  IF sc.raised # ""
                          THEN [raised |-> sc.raised, line |-> sc.line, color |-> NoColor]
                          ELSE return_latex_color_cell(x, value_min, value_max,
                                                       sc.scale, colorwrap, dtype)

\* -------------------------------------------------------------------- state
VARIABLES
    args,               \* the arguments of the call, as passed
    column_tag,         \* print_table's locals ...
    row_tag,
    print_format,
    data_idx,
    row_tag_max_len,
    col_tag_max_len,
    text_buffer,
    latex_buffer,
    row_idx,
    col_idx,
    row_content_latex,
    row_content_text,
    num_str,
    latex_color_cell,
    stdout,             \* what print() has written, in order
    pc,                 \* the block of print_table that runs next
    err                 \* the exception that ended the call, and its line

vars == <<args, column_tag, row_tag, print_format, data_idx, row_tag_max_len,
          col_tag_max_len, text_buffer, latex_buffer, row_idx, col_idx,
          row_content_latex, row_content_text, num_str, latex_color_cell,
          stdout, pc, err>>

\* data_array.shape
Rows(m) == Len(m)
Cols(m) == Len(m[1])

NoErr == [type |-> "", line |-> 0]

\* An exception leaves print_table: nothing else changes.
Raise(type, line) ==
    /\ pc' = "failed"
    /\ err' = [type |-> type, line |-> line]
    /\ UNCHANGED <<args, column_tag, row_tag, print_format, data_idx,
                   row_tag_max_len, col_tag_max_len, text_buffer, latex_buffer,
                   row_idx, col_idx, row_content_latex, row_content_text,
                   num_str, latex_color_cell, stdout>>

\* A tag list or None; a format or scale given as one value or as a list.
NoneTag == [none |-> TRUE, v |-> <<>>]
TagList(v) == [none |-> FALSE, v |-> v]
Scalar(x) == [list |-> FALSE, v |-> <<x>>]
List(v) == [list |-> TRUE, v |-> v]

\* Lines 123-126: tags that are None become lists of empty strings.
DefaultTags(tag, count) == IF tag.none THEN TagList([i \in 1..count |-> <<>>]) ELSE tag

CheckedFormat_rows_only(pf, along_row, rtag, ctag) ==
    IF ~pf.list
    THEN [raised |-> "", pf |-> List([i \in 1..Len(IF along_row THEN rtag.v ELSE ctag.v) |-> pf.v[1]])]
    ELSE IF Len(pf.v) = Len(rtag.v) THEN [raised |-> "", pf |-> pf]
    ELSE [raised |-> "AssertionError", pf |-> pf]

\* Lines 128-139: one format is repeated for every row (or column); a list
\* must be as long as row_tag (or column_tag).
CheckedFormat(pf, along_row, rtag, ctag) ==
    IF ~pf.list
    THEN [raised |-> "", pf |-> List([i \in 1..Len(IF along_row THEN rtag.v ELSE ctag.v) |-> pf.v[1]])]
    ELSE IF Len(pf.v) = Len(IF along_row THEN rtag.v ELSE ctag.v)
         THEN [raised |-> "", pf |-> pf]
         ELSE [raised |-> "AssertionError", pf |-> pf]

\* Lines 123-139.
Start ==
    /\ pc = "start"
    /\ LET ctag == DefaultTags(column_tag, Cols(args.data_array))
           rtag == DefaultTags(row_tag, Rows(args.data_array))
           chk == CheckedFormat(print_format, args.print_format_along_row, rtag, ctag)
       IN  /\ column_tag' = ctag
           /\ row_tag' = rtag
           /\ IF chk.raised # ""
              THEN /\ pc' = "failed"
                   /\ err' = [type |-> chk.raised,
                              line |-> IF args.print_format_along_row THEN 137 ELSE 139]
                   /\ UNCHANGED print_format
              ELSE /\ pc' = "color_config"
                   /\ print_format' = chk.pf
                   /\ UNCHANGED err
    /\ UNCHANGED <<args, data_idx, row_tag_max_len, col_tag_max_len, text_buffer,
                   latex_buffer, row_idx, col_idx, row_content_latex,
                   row_content_text, num_str, latex_color_cell, stdout>>

\* The color maps cm.get_cmap knows (matplotlib's; "Greys" is the default).
KnownColormaps == {"Greys"}

\* Lines 143-144: the color map is looked up, and every cell classified.
ColorConfig ==
    /\ pc = "color_config"
    /\ IF args.colormap \notin KnownColormaps THEN Raise("ValueError", 143)
       ELSE LET vi == return_valid_number_idx(Flatten(args.data_array))
            IN  IF vi.raised # "" THEN Raise(vi.raised, 144)
                ELSE /\ data_idx' = vi.idx
                     /\ pc' = "widths"
                     /\ UNCHANGED <<args, column_tag, row_tag, print_format,
                                    row_tag_max_len, col_tag_max_len, text_buffer,
                                    latex_buffer, row_idx, col_idx, row_content_latex,
                                    row_content_text, num_str, latex_color_cell,
                                    stdout, err>>

\* Lines 181-192: every cell formatted with the format of its row (or
\* column), in the order the comprehension visits them.
WidthFormats(data_array, pf, along_row) ==
    LET lines == IF along_row THEN data_array ELSE Transpose(data_array)
    IN  Concat([i \in 1..Len(lines) |->
                  [j \in 1..Len(lines[i]) |-> py_format(lines[i][j], pf.v[i])]])

\* Lines 177-193.
Widths ==
    /\ pc = "widths"
    /\ LET fs == WidthFormats(args.data_array, print_format, args.print_format_along_row)
           bad == {i \in 1..Len(fs) : fs[i].raised # ""}
       IN  IF bad # {}
           THEN Raise(fs[CHOOSE i \in bad : \A j \in bad : i <= j].raised,
                      IF args.print_format_along_row THEN 185 ELSE 191)
           ELSE /\ row_tag_max_len' = MaxOf([i \in 1..Len(row_tag.v) |-> Len(row_tag.v[i])])
                /\ col_tag_max_len' =
                       MaxOf([i \in 1..Len(column_tag.v) |-> Len(column_tag.v[i])]
                             \o [i \in 1..Len(fs) |-> Len(fs[i].str)])
                /\ pc' = "header"
                /\ UNCHANGED <<args, column_tag, row_tag, print_format, data_idx,
                               text_buffer, latex_buffer, row_idx, col_idx,
                               row_content_latex, row_content_text, num_str,
                               latex_color_cell, stdout, err>>

\* A cell of a LaTeX row: lpad spaces, the color command (if on), the text.
\* It is fill_cell(latex_color_cell + text, width) with the command kept
\* apart from the characters around it.
LatexCell(color, text, width) ==
    LET total == (IF color.on THEN ColorCmdLen ELSE 0) + Len(text)
        pad == Max2(0, width - total)
        left == pad \div 2
    IN  [color |-> color, lpad |-> left, text |-> text \o Repeat(" ", pad - left)]

\* A line of latex_buffer: \begin{tabular}{c...c} with cols columns, a row
\* (return_one_row_latex of its cells), or \end{tabular}.
LatexBegin(cols) == [kind |-> "begin", cols |-> cols, cells |-> <<>>]
LatexRow(cells) == [kind |-> "row", cols |-> 0, cells |-> cells]
LatexEnd == [kind |-> "end", cols |-> 0, cells |-> <<>>]

\* Lines 195-211: the buffers, the head of the LaTeX table, the head row.
Header ==
    /\ pc = "header"
    /\ latex_buffer' =
           <<LatexBegin(Len(column_tag.v) + 1),
             LatexRow(<<LatexCell(NoColor, <<>>, row_tag_max_len)>>
                      \o [i \in 1..Len(column_tag.v) |->
                            LatexCell(NoColor, column_tag.v[i], col_tag_max_len)])>>
    /\ text_buffer' =
           return_one_row_text(
               <<fill_cell(<<>>, row_tag_max_len, args.col_sep)>>
               \o [i \in 1..Len(column_tag.v) |->
                     fill_cell(column_tag.v[i], col_tag_max_len, args.col_sep)])
    /\ row_idx' = 0
    /\ pc' = "row_head"
    /\ UNCHANGED <<args, column_tag, row_tag, print_format, data_idx,
                   row_tag_max_len, col_tag_max_len, col_idx, row_content_latex,
                   row_content_text, num_str, latex_color_cell, stdout, err>>

\* Lines 216-219: the next row starts with its tag.
RowHead ==
    /\ pc = "row_head"
    /\ row_content_latex' = <<LatexCell(NoColor, row_tag.v[row_idx + 1], row_tag_max_len)>>
    /\ row_content_text' = <<fill_cell(row_tag.v[row_idx + 1], row_tag_max_len, args.col_sep)>>
    /\ col_idx' = 0
    /\ pc' = "cell"
    /\ UNCHANGED <<args, column_tag, row_tag, print_format, data_idx,
                   row_tag_max_len, col_tag_max_len, text_buffer, latex_buffer,
                   row_idx, num_str, latex_color_cell, stdout, err>>

\* Lines 242-249: the cell's text and LaTeX are appended to the row.
AppendCell(str, color) ==
    LET shown == IF args.with_color_cell THEN color ELSE NoColor
    IN  /\ num_str' = str
        /\ latex_color_cell' = shown
        /\ row_content_text' =
               Append(row_content_text, fill_cell(str, col_tag_max_len, args.col_sep))
        /\ row_content_latex' =
               Append(row_content_latex, LatexCell(shown, <<" ">> \o str, col_tag_max_len))
        /\ col_idx' = col_idx + 1
        /\ pc' = IF col_idx + 1 < Cols(args.data_array) THEN "cell" ELSE "row_end"
        /\ UNCHANGED <<args, column_tag, row_tag, print_format, data_idx,
                       row_tag_max_len, col_tag_max_len, text_buffer, latex_buffer,
                       row_idx, stdout, err>>

\* Lines 222-249: one cell of the row.
Cell ==
    /\ pc = "cell"
    /\ LET x == args.data_array[row_idx + 1][col_idx + 1]
           tmp_print_format ==
               IF args.print_format_along_row THEN print_format.v[row_idx + 1]
               ELSE print_format.v[col_idx + 1]
           valid == is_valid_float(x)
           f == py_format(x, tmp_print_format)
       IN  IF valid.raised # "" THEN Raise(valid.raised, 229)
           ELSE IF valid.value
           THEN IF f.raised # "" THEN Raise(f.raised, 230)
                ELSE LET c == get_latex_color(args.data_array, row_idx, col_idx,
                                              args.color_minmax_in, args.colorscale,
                                              args.colorwrap, args.dtype)
                     IN  IF c.raised # "" THEN Raise(c.raised, c.line)
                         ELSE AppendCell(f.str, c.color)
           ELSE IF x.k = "str"
           THEN IF f.raised # "" THEN Raise(f.raised, 235)
                ELSE AppendCell(f.str, NoColor)
           ELSE AppendCell(<<>>, NoColor)

\* Lines 251-254: the finished row goes to both buffers.
RowEnd ==
    /\ pc = "row_end"
    /\ latex_buffer' = Append(latex_buffer, LatexRow(row_content_latex))
    /\ text_buffer' = text_buffer \o return_one_row_text(row_content_text)
    /\ row_idx' = row_idx + 1
    /\ pc' = IF row_idx + 1 < Rows(args.data_array) THEN "row_head" ELSE "end_tabular"
    /\ UNCHANGED <<args, column_tag, row_tag, print_format, data_idx,
                   row_tag_max_len, col_tag_max_len, col_idx, row_content_latex,
                   row_content_text, num_str, latex_color_cell, stdout, err>>

\* Line 256.
EndTabular ==
    /\ pc = "end_tabular"
    /\ latex_buffer' = Append(latex_buffer, LatexEnd)
    /\ pc' = "print_latex"
    /\ UNCHANGED <<args, column_tag, row_tag, print_format, data_idx,
                   row_tag_max_len, col_tag_max_len, text_buffer, row_idx, col_idx,
                   row_content_latex, row_content_text, num_str, latex_color_cell,
                   stdout, err>>

\* Lines 258-259.
PrintLatex ==
    /\ pc = "print_latex"
    /\ stdout' = IF args.print_latex_table THEN Append(stdout, "latex_buffer") ELSE stdout
    /\ pc' = "print_text"
    /\ UNCHANGED <<args, column_tag, row_tag, print_format, data_idx,
                   row_tag_max_len, col_tag_max_len, text_buffer, latex_buffer,
                   row_idx, col_idx, row_content_latex, row_content_text, num_str,
                   latex_color_cell, err>>

\* Lines 260-262.
PrintText ==
    /\ pc = "print_text"
    /\ stdout' = IF args.print_text_table THEN Append(stdout, "text_buffer") ELSE stdout
    /\ pc' = "done"
    /\ UNCHANGED <<args, column_tag, row_tag, print_format, data_idx,
                   row_tag_max_len, col_tag_max_len, text_buffer, latex_buffer,
                   row_idx, col_idx, row_content_latex, row_content_text, num_str,
                   latex_color_cell, err>>

\* ------------------------------------------------------------------- inputs
Half == Rat(1, 2)

\* The shapes [M, N] of data_array.
Shapes == {s \in (1..MaxCells) \X (1..MaxCells) : s[1] * s[2] <= MaxCells}
MatricesOf(shape, values) == [1..shape[1] -> [1..shape[2] -> values]]

FiniteValues == {FloatCell(Fin(0)), FloatCell(Fin(1)), FloatCell(Fin(2))}
Text_ab == StrCell(<<"a", "b">>)
Text_1 == StrCell(<<"1">>)

AllFloat(m) == \A i \in 1..Rows(m) : \A j \in 1..Cols(m) : m[i][j].k = "float"
\* np.array of floats is a float64 array; anything else needs dtype=object.
NaturalDtype(m) == IF AllFloat(m) THEN "float64" ELSE "object"

Labels == {<<"a">>, <<"b", " ", "c">>}
TagChoices(count) == {NoneTag} \cup {TagList(t) : t \in [1..count -> Labels]}

Formats == {Fmt_1_2f, Fmt_empty}
ListsOf(values) == UNION {[1..k -> values] : k \in 1..MaxListLen}
Scales == {Half, FNeg(Half)}
Scopes == {"global", "row", "col", "cell"}
\* colorwrap: 0, inside (-1, 1), at the ends, and beyond.
Wraps == {Fin(0), Half, Fin(1), Fin(-1), Fin(2)}

\* The defaults of print_table's signature (lines 69-79), with plain tags.
DefaultArgs(m) ==
    [data_array |-> m,
     dtype |-> NaturalDtype(m),
     column_tag |-> TagList([j \in 1..Cols(m) |-> <<"c">>]),
     row_tag |-> TagList([i \in 1..Rows(m) |-> <<"r">>]),
     print_format |-> Scalar(Fmt_1_2f),
     with_color_cell |-> TRUE,
     colormap |-> "Greys",
     colorscale |-> Scalar(Half),
     colorwrap |-> Fin(0),
     col_sep |-> <<>>,
     print_latex_table |-> TRUE,
     print_text_table |-> TRUE,
     print_format_along_row |-> TRUE,
     color_minmax_in |-> "global"]

\* Calls that vary the layout: tags, separator, format.
LayoutCall(a) ==
    \E s \in Shapes : \E m \in MatricesOf(s, {FloatCell(Fin(1))}) :
    \E rt \in TagChoices(Rows(m)), ct \in TagChoices(Cols(m)) :
    \E sep \in {<<>>, <<",">>}, f \in Formats :
        a = [DefaultArgs(m) EXCEPT !.row_tag = rt, !.column_tag = ct,
                                   !.col_sep = sep, !.print_format = Scalar(f)]

\* Calls that vary the format, one or a list, by row or by column.
FormatCall(a) ==
    \E s \in Shapes : \E m \in MatricesOf(s, {FloatCell(Fin(1)), Text_ab}) :
    \E pf \in {Scalar(f) : f \in Formats} \cup {List(l) : l \in ListsOf(Formats)} :
    \E ar \in BOOLEAN :
        a = [DefaultArgs(m) EXCEPT !.print_format = pf, !.print_format_along_row = ar]

\* Calls that vary the finite values, the scale and the scope.
ColorCall(a) ==
    \E s \in Shapes : \E m \in MatricesOf(s, FiniteValues) :
    \E sc \in Scales, sp \in Scopes :
        a = [DefaultArgs(m) EXCEPT !.colorscale = Scalar(sc), !.color_minmax_in = sp]

\* Calls that vary what the cells hold.
DataValues ==
    {FloatCell(Fin(1)), FloatCell(PosInf), FloatCell(NegInf), FloatCell(NaN), NoneCell}
DataCall(a) ==
    \E s \in Shapes : \E m \in MatricesOf(s, DataValues) : a = DefaultArgs(m)

\* Calls on an object array that holds strings.
TextCall(a) ==
    \E s \in Shapes : \E m \in MatricesOf(s, {FloatCell(Fin(1)), Text_ab, Text_1}) :
        a = [DefaultArgs(m) EXCEPT !.print_format = Scalar(Fmt_empty)]

\* Calls on matrices that hold -inf.
InfCall(a) ==
    \E s \in Shapes :
    \E m \in MatricesOf(s, {FloatCell(Fin(0)), FloatCell(Fin(1)), FloatCell(NegInf)}) :
    \E sc \in Scales :
        a = [DefaultArgs(m) EXCEPT !.colorscale = Scalar(sc)]

\* Calls with a list of scales.
ScaleListCall(a) ==
    \E s \in Shapes : \E m \in MatricesOf(s, {FloatCell(Fin(0)), FloatCell(Fin(1))}) :
    \E l \in ListsOf(Scales), sp \in Scopes :
        a = [DefaultArgs(m) EXCEPT !.colorscale = List(l), !.color_minmax_in = sp]

\* Calls that vary the wrap factor.
WrapCall(a) ==
    \E s \in Shapes :
    \E m \in MatricesOf(s, FiniteValues \cup {FloatCell(NaN)}) :
    \E w \in Wraps \ {Fin(0)} :
        a = [DefaultArgs(m) EXCEPT !.colorwrap = w]

\* Calls on an object array of Python floats.
ObjectCall(a) ==
    \E s \in Shapes : \E m \in MatricesOf(s, {FloatCell(Fin(1)), FloatCell(Fin(2))}) :
    \E sp \in Scopes :
        a = [DefaultArgs(m) EXCEPT !.dtype = "object", !.color_minmax_in = sp]

\* Calls that vary the switches and the color map.
SwitchCall(a) ==
    \E s \in Shapes :
    \E m \in MatricesOf(s, {FloatCell(Fin(1)), Text_ab}) :
    \E wc \in BOOLEAN, pl \in BOOLEAN, pt \in BOOLEAN, cmap \in {"Greys", "Gray"} :
        a = [DefaultArgs(m) EXCEPT !.with_color_cell = wc, !.colormap = cmap,
                                   !.print_latex_table = pl, !.print_text_table = pt,
                                   !.print_format = Scalar(Fmt_empty)]

\* ------------------------------------------------------------ specification
Init ==
    /\ \/ LayoutCall(args)
       \/ FormatCall(args)
       \/ ColorCall(args)
       \/ DataCall(args)
       \/ TextCall(args)
       \/ InfCall(args)
       \/ ScaleListCall(args)
       \/ WrapCall(args)
       \/ ObjectCall(args)
       \/ SwitchCall(args)
    /\ column_tag = args.column_tag
    /\ row_tag = args.row_tag
    /\ print_format = args.print_format
    /\ data_idx = <<>>
    /\ row_tag_max_len = 0
    /\ col_tag_max_len = 0
    /\ text_buffer = <<>>
    /\ latex_buffer = <<>>
    /\ row_idx = 0
    /\ col_idx = 0
    /\ row_content_latex = <<>>
    /\ row_content_text = <<>>
    /\ num_str = <<>>
    /\ latex_color_cell = NoColor
    /\ stdout = <<>>
    /\ pc = "start"
    /\ err = NoErr

Next ==
    \/ Start
    \/ ColorConfig
    \/ Widths
    \/ Header
    \/ RowHead
    \/ Cell
    \/ RowEnd
    \/ EndTabular
    \/ PrintLatex
    \/ PrintText

Spec == Init /\ [][Next]_vars

\* =================================================================== claims
\* The spec's classification of a cell (section 4.1): numeric-valid is
\* convertible to a float, finite and not nan; invalid is neither that nor
\* a string.
SpecNumericValid(c) ==
    \/ c.k = "float" /\ IsFinite(FloatOf(c))
    \/ c.k = "str" /\ IsFloatLiteral(c.s)
SpecInvalid(c) == c.k = "none" \/ (c.k = "float" /\ ~IsFinite(FloatOf(c)))

M == Rows(args.data_array)
N == Cols(args.data_array)
CellAt(i, j) == args.data_array[i + 1][j + 1]
AllCells == Flatten(args.data_array)

\* The cell loop has just appended a cell: the one at (row_idx, LastCol).
JustProcessed == pc \in {"cell", "row_end"} /\ Len(row_content_text) >= 2
LastCol == Len(row_content_text) - 2
LastCell == CellAt(row_idx, LastCol)

\* text_buffer holds the whole text table.
TextComplete == pc \in {"end_tabular", "print_latex", "print_text", "done"}

RECURSIVE SplitLines(_, _)
\* The lines of a text, each ended by a line break; cur is the line so far.
SplitLines(text, cur) ==
    IF text = <<>> THEN (IF cur = <<>> THEN <<>> ELSE <<cur>>)
    ELSE IF Head(text) = "\n" THEN <<cur>> \o SplitLines(Tail(text), <<>>)
    ELSE SplitLines(Tail(text), Append(cur, Head(text)))

TextLines == SplitLines(text_buffer, <<>>)

\* The number of fields of a line split at runs of delimiters, as
\* str.split() counts them.
FieldCount(line, delims) ==
    Cardinality({i \in 1..Len(line) :
                    line[i] \notin delims /\ (i = 1 \/ line[i - 1] \in delims)})

Delims == Whitespace \cup {args.col_sep[i] : i \in 1..Len(args.col_sep)}

LabelWidth == row_tag_max_len + Len(args.col_sep)
CellWidth == col_tag_max_len + Len(args.col_sep)
\* Where cell k (0 is the label) starts in a line, counted from 1.
CellStart(k) == IF k = 0 THEN 1 ELSE LabelWidth + (k - 1) * (CellWidth + 1) + 2
CellOf(line, k) ==
    SubSeq(line, CellStart(k), CellStart(k) + (IF k = 0 THEN LabelWidth ELSE CellWidth) - 1)
EndsWith(text, suffix) ==
    Len(text) >= Len(suffix)
    /\ SubSeq(text, Len(text) - Len(suffix) + 1, Len(text)) = suffix

FormatMismatch ==
    /\ args.print_format.list
    /\ Len(args.print_format.v) # (IF args.print_format_along_row THEN M ELSE N)

\* C2: a print_format list whose length differs from the number of rows (in
\* row mode) or of columns (in column mode) ends print_table with the
\* assertion's error before a cell is classified or formatted and before
\* anything is buffered or printed.
C2_FormatListMismatchFailsFirst ==
    FormatMismatch =>
        /\ pc \in {"start", "failed"}
        /\ pc = "failed" => err.type = "AssertionError"
        /\ stdout = <<>>
        /\ text_buffer = <<>> /\ latex_buffer = <<>>
        /\ data_idx = <<>>
        /\ row_content_text = <<>> /\ row_content_latex = <<>>

\* The call failed on a list that fits the rows but not the columns, in
\* column mode.
C2_Witness ==
    /\ FormatMismatch
    /\ ~args.print_format_along_row
    /\ Len(args.print_format.v) = M
    /\ pc = "failed"
    /\ err = [type |-> "AssertionError", line |-> 139]

IsDefaultCall == args = DefaultArgs(args.data_array)

\* C3 as stated: a matrix with invalid cells (neither number nor string, or
\* not finite) is rendered: the call does not fail, and each such cell has
\* an empty formatted value and no color command.  Stated for the default
\* arguments, under which nothing but the cells can end the call.
C3_Original_InvalidCellsNeverFatal ==
    (IsDefaultCall /\ \E i \in 1..Len(AllCells) : SpecInvalid(AllCells[i])) =>
        /\ pc # "failed"
        /\ (JustProcessed /\ SpecInvalid(LastCell)) =>
               (num_str = <<>> /\ ~latex_color_cell.on)

\* The finite floats of the cells the spec's scope of cell (i, j) covers.
SpecScope(i, j) ==
    LET cells == ScopeCells(args.data_array, i, j, args.color_minmax_in)
    IN  {FloatOf(cells[k]) : k \in {x \in 1..Len(cells) :
                                       cells[x].k = "float" /\ IsFinite(FloatOf(cells[x]))}}
SpecMin(i, j) == CHOOSE a \in SpecScope(i, j) : \A b \in SpecScope(i, j) : FLeq(a, b)
SpecMax(i, j) == CHOOSE a \in SpecScope(i, j) : \A b \in SpecScope(i, j) : FLeq(b, a)

\* C4 as stated: when the minimum and the maximum of the scope are equal,
\* coloring a cell raises no division error and gives a defined intensity.
C4_Original_DegenerateScope ==
    /\ ~(pc = "failed" /\ err.type = "ZeroDivisionError" /\ err.line \in {43, 46})
    /\ (/\ JustProcessed
        /\ args.with_color_cell
        /\ IsZero(args.colorwrap)
        /\ ~args.colorscale.list
        /\ LastCell.k = "float" /\ IsFinite(FloatOf(LastCell))
        /\ SpecMin(row_idx, LastCol) = SpecMax(row_idx, LastCol))
       => (latex_color_cell.on /\ IsFinite(latex_color_cell.lo))

\* C5 as stated: is_valid_float is true exactly for the values that convert
\* to a float and are finite, and raises for no value.
C5_Original_ValidityClassification ==
    /\ ~(pc = "failed" /\ err.line = 144)
    /\ pc \notin {"start", "color_config", "failed"} =>
           data_idx = [i \in 1..Len(AllCells) |-> SpecNumericValid(AllCells[i])]

\* C6 as stated: with wrap 0 and the global scope the intensity of a
\* numeric-valid cell is t*scale (scale >= 0) or |scale| - t*|scale|
\* (scale < 0), t = (value - min)/(max - min) over the numeric-valid cells.
\* Stated where min < max, so that t is defined.
C6_Original_LinearIntensity ==
    (/\ JustProcessed
     /\ args.with_color_cell
     /\ IsZero(args.colorwrap)
     /\ args.color_minmax_in = "global"
     /\ ~args.colorscale.list
     /\ LastCell.k = "float" /\ IsFinite(FloatOf(LastCell))
     /\ SpecMin(row_idx, LastCol) # SpecMax(row_idx, LastCol))
    => LET scale == args.colorscale.v[1]
           t == FDiv(FSub(FloatOf(LastCell), SpecMin(row_idx, LastCol)),
                     FSub(SpecMax(row_idx, LastCol), SpecMin(row_idx, LastCol)))
           want == IF FLess(scale, Fin(0))
                   THEN FSub(FNeg(scale), FMul(t, FNeg(scale)))
                   ELSE FMul(t, scale)
       IN  /\ latex_color_cell = ColorCmd(Exact(want))
           /\ FLeq(Fin(0), latex_color_cell.lo)
           /\ FLeq(latex_color_cell.lo, IF FLess(scale, Fin(0)) THEN FNeg(scale) ELSE scale)

\* The matrix holds finite floats only, and at least two different ones.
PlainMatrix ==
    /\ \A i \in 1..Len(AllCells) :
           AllCells[i].k = "float" /\ IsFinite(FloatOf(AllCells[i]))
    /\ \E i, j \in 1..Len(AllCells) : AllCells[i] # AllCells[j]

\* C7 as stated: a scope selector other than 'global', 'row', 'col' ends
\* the call before any output; no table is rendered under a default scope.
\* Stated for matrices of finite floats that are not all equal.
C7_Original_InvalidScopeRejected ==
    (PlainMatrix /\ args.color_minmax_in \notin {"global", "row", "col"}) =>
        (pc # "done" /\ stdout = <<>>)

\* colorwrap <= -1 or colorwrap >= 1
WrapOutOfRange == FLeq(args.colorwrap, Fin(-1)) \/ FLeq(Fin(1), args.colorwrap)

\* C8 as stated: a wrap factor outside (-1, 1) is rejected for every
\* matrix: no color is computed with it and no table is produced.  Stated
\* for matrices of finite floats that are not all equal.
C8_Original_WrapRejected ==
    (PlainMatrix /\ WrapOutOfRange) =>
        /\ ~latex_color_cell.on
        /\ pc # "done"
        /\ stdout = <<>>

\* The list of scales has one entry per row, per column, or per cell, as
\* the scope asks.
ScaleListFitsScope ==
    /\ args.colorscale.list
    /\ args.color_minmax_in \in {"global", "row", "col"}
    /\ Len(args.colorscale.v) =
           (IF args.color_minmax_in = "row" THEN M
            ELSE IF args.color_minmax_in = "col" THEN N ELSE M * N)

\* C9 as stated: with a list of scales that fits the scope, in each of the
\* three scopes every numeric-valid cell gets a color, without error.
C9_Original_ScaleListPerScope ==
    ScaleListFitsScope =>
        /\ pc # "failed"
        /\ (JustProcessed /\ SpecNumericValid(LastCell) /\ args.with_color_cell)
               => latex_color_cell.on

\* C10 as stated: a LaTeX cell has a color command if and only if the cell
\* is numeric-valid and with_color_cell is set.
C10_Original_ColorIffNumericValid ==
    JustProcessed =>
        (latex_color_cell.on <=> (SpecNumericValid(LastCell) /\ args.with_color_cell))

====
